---- MODULE Spec2Model ----
(***************************************************************************)
(* Model of the GitHubIssueFinder component (src/app/page.tsx).            *)
(*                                                                         *)
(* Strings are sequences of symbols.  A symbol is "," or " " or a word (a  *)
(* run of characters holding neither a comma nor white space).  Requests   *)
(* to the search API are kept in issue order; each holds the query it was  *)
(* issued with, its promise state and, once fulfilled, the items returned. *)
(***************************************************************************)
EXTENDS Integers, Sequences, FiniteSets, TLC

VARIABLES tags, repos, loading, error, currentPage, requests

vars == <<tags, repos, loading, error, currentPage, requests>>

(* ------------------------------ bounds --------------------------------- *)
MaxRequests == 2
MaxTypedLen == 1
MaxTagsLen == 3
MaxTopics == 2
MaxIssues == 4
MaxResults == 45

(* ------------------------- program constants --------------------------- *)
ITEMS_PER_PAGE == 10

trendingTopics ==
  <<"hacktoberfest", "good-first-issue", "help-wanted", "bug",
    "enhancement", "documentation">>

Null == "<null>"
ErrFailedToFetch == "Failed to fetch issues"
ErrGeneric == "An error occurred while fetching issues. Please try again."

(* ------------------------------ inputs --------------------------------- *)
TypeAlphabet == {",", " ", "bug"}

SeqsUpTo(S, n) == UNION {[1..k -> S] : k \in 0..n}

TypedTexts == SeqsUpTo(TypeAlphabet, MaxTypedLen)

RepoUrl(owner, name) ==
  <<"https:", "", "api.github.com", "repos", owner, name>>

Issue(owner, name) == [repository_url |-> RepoUrl(owner, name)]

ManyRepos == ITEMS_PER_PAGE + 1

MoreRepos == 2 * ITEMS_PER_PAGE + 1

Payloads ==
  { <<>>,
    <<Issue("c", "d"), Issue("a", "b"), Issue("a", "b"), Issue("e", "f")>>,
    [k \in 1..ManyRepos |-> Issue("o", k)],
    [k \in 1..MoreRepos |-> Issue("o", k)] }

Outcomes == {"ok", "http_error", "exception"}

(* --------------------------- query builder ----------------------------- *)
RECURSIVE split(_, _)
split(s, sep) ==
  IF \A k \in 1..Len(s) : s[k] # sep
    THEN <<s>>
    ELSE LET p == CHOOSE k \in 1..Len(s) :
                    s[k] = sep /\ \A j \in 1..(k - 1) : s[j] # sep
         IN <<SubSeq(s, 1, p - 1)>> \o split(SubSeq(s, p + 1, Len(s)), sep)

RECURSIVE trim(_)
trim(s) ==
  IF s = <<>> THEN s
  ELSE IF Head(s) = " " THEN trim(Tail(s))
  ELSE IF s[Len(s)] = " " THEN trim(SubSeq(s, 1, Len(s) - 1))
  ELSE s

tagList(t) ==
  SelectSeq([k \in 1..Len(split(t, ",")) |-> trim(split(t, ",")[k])],
            LAMBDA x : x # <<>>)

RECURSIVE join(_, _)
join(parts, sep) ==
  IF parts = <<>> THEN <<>>
  ELSE IF Len(parts) = 1 THEN parts[1]
  ELSE parts[1] \o <<sep>> \o join(Tail(parts), sep)

queryString(t) ==
  join([k \in 1..Len(tagList(t)) |-> <<"label:">> \o tagList(t)[k]], "+")

(* ----------------------------- aggregator ------------------------------ *)
repoFullName(issue) ==
  LET u == issue.repository_url
  IN SubSeq(u, IF Len(u) > 2 THEN Len(u) - 1 ELSE 1, Len(u))

webUrl(issue) ==
  LET u == issue.repository_url
  IN IF \E k \in 1..(Len(u) - 1) : u[k] = "api.github.com" /\ u[k + 1] = "repos"
       THEN LET p == CHOOSE k \in 1..(Len(u) - 1) :
                       /\ u[k] = "api.github.com" /\ u[k + 1] = "repos"
                       /\ \A j \in 1..(k - 1) :
                            ~(u[j] = "api.github.com" /\ u[j + 1] = "repos")
            IN SubSeq(u, 1, p - 1) \o <<"github.com">> \o SubSeq(u, p + 2, Len(u))
       ELSE u

RECURSIVE repoIssueCountFromZero(_)
repoIssueCountFromZero(items) ==
  IF items = <<>> THEN <<>>
  ELSE LET acc == repoIssueCountFromZero(SubSeq(items, 1, Len(items) - 1))
           issue == items[Len(items)]
           name == repoFullName(issue)
       IN IF \E k \in 1..Len(acc) : acc[k].repo = name
            THEN [k \in 1..Len(acc) |->
                    IF acc[k].repo = name
                      THEN [acc[k] EXCEPT !.count = @ + 1]
                      ELSE acc[k]]
            ELSE Append(acc, [repo |-> name, count |-> 0, url |-> webUrl(issue)])

RECURSIVE repoIssueCount(_)
repoIssueCount(items) ==
  IF items = <<>> THEN <<>>
  ELSE LET acc == repoIssueCount(SubSeq(items, 1, Len(items) - 1))
           issue == items[Len(items)]
           name == repoFullName(issue)
       IN IF \E k \in 1..Len(acc) : acc[k].repo = name
            THEN [k \in 1..Len(acc) |->
                    IF acc[k].repo = name
                      THEN [acc[k] EXCEPT !.count = @ + 1]
                      ELSE acc[k]]
            ELSE Append(acc, [repo |-> name, count |-> 1, url |-> webUrl(issue)])

RECURSIVE insertSortedUnstable(_, _)
insertSortedUnstable(sorted, e) ==
  IF sorted = <<>> THEN <<e>>
  ELSE IF e.count - sorted[Len(sorted)].count >= 0
    THEN Append(insertSortedUnstable(SubSeq(sorted, 1, Len(sorted) - 1), e),
                sorted[Len(sorted)])
    ELSE Append(sorted, e)

RECURSIVE insertSorted(_, _)
insertSorted(sorted, e) ==
  IF sorted = <<>> THEN <<e>>
  ELSE IF e.count - sorted[Len(sorted)].count > 0
    THEN Append(insertSorted(SubSeq(sorted, 1, Len(sorted) - 1), e),
                sorted[Len(sorted)])
    ELSE Append(sorted, e)

RECURSIVE sortByCountDesc(_)
sortByCountDesc(entries) ==
  IF entries = <<>> THEN <<>>
  ELSE insertSorted(sortByCountDesc(SubSeq(entries, 1, Len(entries) - 1)),
                    entries[Len(entries)])

sortedRepos(items) == sortByCountDesc(repoIssueCount(items))

(* ----------------------------- pagination ------------------------------ *)
totalPages == (Len(repos) + ITEMS_PER_PAGE - 1) \div ITEMS_PER_PAGE

slice(s, from, to) ==
  LET lo == IF from < Len(s) THEN from ELSE Len(s)
      hi == IF to < Len(s) THEN to ELSE Len(s)
  IN SubSeq(s, lo + 1, hi)

paginateFromZero(results, pageIndex) ==
  slice(results, pageIndex * ITEMS_PER_PAGE, (pageIndex + 1) * ITEMS_PER_PAGE)

paginate(results, pageIndex) ==
  slice(results, (pageIndex - 1) * ITEMS_PER_PAGE, pageIndex * ITEMS_PER_PAGE)

paginatedRepos == paginate(repos, currentPage)

(* ------------------------------- state --------------------------------- *)
Init ==
  /\ tags = <<>>
  /\ repos = <<>>
  /\ loading = FALSE
  /\ error = Null
  /\ currentPage = 1
  /\ requests = <<>>

Pending == {i \in 1..Len(requests) : requests[i].state = "pending"}

(* ----------------------------- fetch cycle ----------------------------- *)
FetchIssuesByTagsKeepingError(t) ==
  /\ loading' = TRUE
  /\ error' = error
  /\ requests' = Append(requests,
                   [query |-> queryString(t), state |-> "pending", items |-> <<>>])

\* lines 35-41: everything fetchIssuesByTags does before its first await
FetchIssuesByTags(t) ==
  /\ loading' = TRUE
  /\ error' = Null
  /\ requests' = Append(requests,
                   [query |-> queryString(t), state |-> "pending", items |-> <<>>])

\* what the try block throws for a given outcome of the request (Null: nothing)
thrown(outcome) ==
  CASE outcome = "http_error" -> ErrFailedToFetch
    [] outcome = "exception" -> "TypeError"
    [] OTHER -> Null

catchMessageOfError(err) == err

\* line 66: the catch clause ignores the error it caught
catchMessage(err) == ErrGeneric

\* lines 64-66: the error message after request i settled
errorAfter(i, outcome) ==
  IF thrown(outcome) = Null THEN error ELSE catchMessage(thrown(outcome))

reposAfterTagged(i, outcome, items) ==
  IF thrown(outcome) = Null /\ i = Len(requests) THEN sortedRepos(items) ELSE repos

reposAfterClearing(i, outcome, items) ==
  IF thrown(outcome) = Null THEN sortedRepos(items) ELSE <<>>

reposAfterMerging(i, outcome, items) ==
  IF thrown(outcome) = Null THEN repos \o sortedRepos(items) ELSE repos

\* lines 45-64: the results list after request i settled
reposAfter(i, outcome, items) ==
  IF thrown(outcome) = Null THEN sortedRepos(items) ELSE repos

loadingAfterNoFinally(i, outcome) ==
  IF thrown(outcome) = Null THEN FALSE ELSE loading

\* lines 67-69: the finally clause
loadingAfter(i, outcome) == FALSE

\* lines 41-69: request i settles and fetchIssuesByTags runs to its end
Settle(i) ==
  /\ i \in Pending
  /\ \E outcome \in Outcomes :
       \E items \in (IF outcome = "ok" THEN Payloads ELSE {<<>>}) :
         /\ requests' = [requests EXCEPT ![i].state = outcome, ![i].items = items]
         /\ repos' = reposAfter(i, outcome, items)
         /\ error' = errorAfter(i, outcome)
         /\ loading' = loadingAfter(i, outcome)
  /\ UNCHANGED <<tags, currentPage>>

(* ------------------------------ handlers ------------------------------- *)
UseEffectAlways(newTags) == FetchIssuesByTags(newTags)

\* lines 72-76: the effect that runs when tags changed
UseEffect(newTags) ==
  IF newTags # <<>>
    THEN FetchIssuesByTags(newTags)
    ELSE UNCHANGED <<loading, error, requests>>

\* line 111: the input's onChange
ChangeText(v) ==
  /\ v # tags
  /\ v = <<>> \/ Len(requests) < MaxRequests
  /\ tags' = v
  /\ UseEffect(v)
  /\ UNCHANGED <<repos, currentPage>>

HandleSearchNoReset ==
  /\ ~loading
  /\ Len(requests) < MaxRequests
  /\ FetchIssuesByTags(tags)
  /\ UNCHANGED <<tags, repos, currentPage>>

\* lines 78-82, behind the submit button of lines 116-118
HandleSearch ==
  /\ ~loading
  /\ Len(requests) < MaxRequests
  /\ FetchIssuesByTags(tags)
  /\ currentPage' = 1
  /\ UNCHANGED <<tags, repos>>

newTagsReplacing(prevTags, topic) == <<topic>>

\* lines 84-89
newTags(prevTags, topic) ==
  IF prevTags # <<>> THEN prevTags \o <<",">> \o <<topic>> ELSE <<topic>>

HandleTrendingTopicClick(topic) ==
  /\ Len(newTags(tags, topic)) <= MaxTagsLen
  /\ Len(requests) < MaxRequests
  /\ tags' = newTags(tags, topic)
  /\ UseEffect(tags')
  /\ UNCHANGED <<repos, currentPage>>

\* lines 169-176
Previous ==
  /\ Len(repos) > ITEMS_PER_PAGE
  /\ currentPage # 1
  /\ currentPage' = (IF currentPage - 1 > 1 THEN currentPage - 1 ELSE 1)
  /\ UNCHANGED <<tags, repos, loading, error, requests>>

NextPageRefetching ==
  /\ Len(repos) > ITEMS_PER_PAGE
  /\ currentPage # totalPages
  /\ Len(requests) < MaxRequests
  /\ currentPage' = (IF currentPage + 1 < totalPages THEN currentPage + 1 ELSE totalPages)
  /\ FetchIssuesByTags(tags)
  /\ UNCHANGED <<tags, repos>>

\* lines 169-185
NextPage ==
  /\ Len(repos) > ITEMS_PER_PAGE
  /\ currentPage # totalPages
  /\ currentPage' = (IF currentPage + 1 < totalPages THEN currentPage + 1 ELSE totalPages)
  /\ UNCHANGED <<tags, repos, loading, error, requests>>

TypeStep == \E v \in TypedTexts : ChangeText(v)
ClickableTopics ==
  {trendingTopics[k] : k \in {j \in 1..Len(trendingTopics) : j <= MaxTopics}}

TopicStep == \E topic \in ClickableTopics : HandleTrendingTopicClick(topic)
SettleStep == \E i \in 1..Len(requests) : Settle(i)

Next ==
  \/ TypeStep
  \/ TopicStep
  \/ HandleSearch
  \/ SettleStep
  \/ Previous
  \/ NextPage

Spec == Init /\ [][Next]_vars

(* ------------------- the aggregator on every response ------------------ *)
AggIssues == {Issue("a", "b"), Issue("c", "d"), Issue("e", "f")}

AggInputs == SeqsUpTo(AggIssues, MaxIssues)

\* one request in flight whose response will carry the given items
AggInit ==
  /\ tags = <<"bug">>
  /\ repos = <<>>
  /\ loading = TRUE
  /\ error = Null
  /\ currentPage = 1
  /\ \E items \in AggInputs :
       requests = <<[query |-> queryString(<<"bug">>), state |-> "pending",
                     items |-> items]>>

\* lines 45-68: request i is fulfilled with the items its response carries
Aggregate(i) ==
  /\ i \in Pending
  /\ requests' = [requests EXCEPT ![i].state = "ok"]
  /\ repos' = reposAfter(i, "ok", requests[i].items)
  /\ error' = errorAfter(i, "ok")
  /\ loading' = loadingAfter(i, "ok")
  /\ UNCHANGED <<tags, currentPage>>

AggStep == \E i \in 1..Len(requests) : Aggregate(i)

AggNext == AggStep

AggSpec == AggInit /\ [][AggNext]_vars

(* ------------------- the pager on every results list ------------------- *)
\* the results list that aggregating n issues of n repositories gives
PageResults(n) ==
  [k \in 1..n |->
     [repo |-> <<"o", k>>, count |-> 1,
      url |-> <<"https:", "", "github.com", "o", k>>]]

\* a search has been fulfilled with issues of n repositories and aggregated
PageInit ==
  /\ tags = <<"bug">>
  /\ loading = FALSE
  /\ error = Null
  /\ currentPage = 1
  /\ \E n \in 0..MaxResults :
       /\ requests = <<[query |-> queryString(<<"bug">>), state |-> "ok",
                        items |-> [k \in 1..n |-> Issue("o", k)]]>>
       /\ repos = PageResults(n)

PageNext ==
  \/ Previous
  \/ NextPage

PageSpec == PageInit /\ [][PageNext]_vars

\* every issued request eventually settles
FairSpec == Spec /\ WF_vars(SettleStep)

(* ------------------------------ claims --------------------------------- *)
Failed(i) == requests[i].state \in {"http_error", "exception"}

SettledNow(i) == i \in Pending /\ requests'[i].state # "pending"

LastRequest == requests[Len(requests)]

\* C1: a request that was issued stays in flight when a later one is issued,
\* and whenever any pending request is fulfilled, the latest or not, the
\* results list becomes the aggregation of that request's items; so the
\* results of an earlier request can end up displayed after all have settled.
C1_AnyResponseReplacesResults ==
  [][/\ \A i \in Pending : requests'[i].query = requests[i].query
     /\ \A i \in 1..Len(requests) :
          (i \in Pending /\ requests'[i].state = "ok")
            => repos' = sortedRepos(requests'[i].items)]_vars

C1_StaleResultsShown ==
  /\ Len(requests) >= 2
  /\ Pending = {}
  /\ LastRequest.state = "ok"
  /\ repos # sortedRepos(LastRequest.items)
  /\ \E j \in 1..(Len(requests) - 1) :
       requests[j].state = "ok" /\ repos = sortedRepos(requests[j].items)

\* C2: a request that settles with a non-success status, like one that
\* settles with an exception, ends its fetch cycle with error set to the
\* generic message; "Failed to fetch issues" is never the error state.
C2_HttpErrorGivesGenericMessage ==
  /\ [](error # ErrFailedToFetch)
  /\ [][\A i \in 1..Len(requests) :
          (SettledNow(i) /\ requests'[i].state \in {"http_error", "exception"})
            => error' = ErrGeneric]_vars

C2_HttpErrorShown ==
  /\ error = ErrGeneric
  /\ \E i \in 1..Len(requests) : requests[i].state = "http_error"
  /\ \A i \in 1..Len(requests) : requests[i].state # "exception"

\* C3: an error message is never set while the results list is non-empty.
C3_ErrorExcludesResults == ~(error # Null /\ repos # <<>>)

\* C4: a fetch cycle that fails leaves the results list, the page index and
\* the label text as they were; it sets the error message and clears loading.
C4_FailureLeavesResultsAndPage ==
  [][\A i \in 1..Len(requests) :
       (SettledNow(i) /\ requests'[i].state # "ok")
         => /\ repos' = repos
            /\ currentPage' = currentPage
            /\ tags' = tags
            /\ error' # Null
            /\ loading' = FALSE]_vars

C4_FailureOverResults ==
  /\ \E i \in 1..Len(requests) : Failed(i)
  /\ error # Null
  /\ repos # <<>>
  /\ currentPage = 2

\* C5: no request is ever issued with an empty query.
C5_NoEmptyQuery == \A i \in 1..Len(requests) : requests[i].query # <<>>

\* C6: no step issues a request while loading is true.
C6_NoFetchWhileLoading == [][loading => Len(requests') = Len(requests)]_vars

\* C7: the step in which a request settles clears loading; if every request
\* eventually settles, loading = TRUE leads to loading = FALSE; and loading
\* is FALSE whenever no request is pending.
C7_LoadingCleared ==
  /\ [][\A i \in 1..Len(requests) : SettledNow(i) => loading' = FALSE]_vars
  /\ (loading ~> ~loading)
  /\ [](Pending = {} => ~loading)

C7_AllSettled ==
  /\ Len(requests) >= 2
  /\ Pending = {}
  /\ ~loading
  /\ \E i \in 1..Len(requests) : Failed(i)
  /\ \E i \in 1..Len(requests) : requests[i].state = "ok"

\* C8: a search submission issues exactly one request, for the current label
\* text, sets the page index to 1 and leaves the label text unchanged.
C8_SubmitFetchesAndResetsPage ==
  [][HandleSearch
       => /\ Len(requests') = Len(requests) + 1
          /\ SubSeq(requests', 1, Len(requests)) = requests
          /\ requests'[Len(requests')].query = queryString(tags)
          /\ requests'[Len(requests')].state = "pending"
          /\ currentPage' = 1
          /\ tags' = tags]_vars

C8_SubmittedFromLaterPage ==
  /\ Len(requests) = 2
  /\ requests[1].state = "ok"
  /\ Len(repos) > ITEMS_PER_PAGE
  /\ requests[2].state = "pending"
  /\ requests[2].query = queryString(tags)
  /\ requests[2].query = requests[1].query
  /\ loading
  /\ currentPage = 1

\* C9: a topic click sets the label text to the previous text, a comma and
\* the topic (just the topic when the text was empty), issues one request
\* for the new text and leaves the page index unchanged.
C9_TopicClickAppends ==
  [][\A k \in 1..Len(trendingTopics) :
       HandleTrendingTopicClick(trendingTopics[k])
         => /\ tags' = (IF tags = <<>>
                          THEN <<trendingTopics[k]>>
                          ELSE tags \o <<",", trendingTopics[k]>>)
            /\ Len(requests') = Len(requests) + 1
            /\ requests'[Len(requests')].query = queryString(tags')
            /\ requests'[Len(requests')].state = "pending"
            /\ currentPage' = currentPage]_vars

C9_TopicAppendedOnLaterPage ==
  /\ tags = <<"bug", ",", trendingTopics[1]>>
  /\ LastRequest.state = "pending"
  /\ LastRequest.query = <<"label:", "bug", "+", "label:", trendingTopics[1]>>
  /\ currentPage = 2

\* C10: a step that changes the label text to a non-empty value issues
\* exactly one request, for the new text, sets loading and clears the error;
\* a step that changes it to the empty text issues no request and leaves
\* loading, error and results unchanged.
C10_TextChangeStartsFetch ==
  [][tags' # tags
       => IF tags' # <<>>
            THEN /\ Len(requests') = Len(requests) + 1
                 /\ SubSeq(requests', 1, Len(requests)) = requests
                 /\ requests'[Len(requests')].query = queryString(tags')
                 /\ requests'[Len(requests')].state = "pending"
                 /\ loading' = TRUE
                 /\ error' = Null
            ELSE UNCHANGED <<requests, loading, error, repos>>]_vars

C10_ErrorClearedByNewText ==
  /\ Len(requests) >= 2
  /\ Failed(Len(requests) - 1)
  /\ LastRequest.state = "pending"
  /\ LastRequest.query = queryString(tags)
  /\ tags # <<>>
  /\ loading
  /\ error = Null

\* C11: while the pager is shown, a Previous or Next click that is accepted
\* (its button is not disabled) moves the page index by exactly one in its
\* direction and leaves it in 1..totalPages, and the Next button is disabled
\* exactly when the rows shown are those of the last page.
PagerShown == Len(repos) > ITEMS_PER_PAGE

LastPageRows ==
  slice(repos, (totalPages - 1) * ITEMS_PER_PAGE, totalPages * ITEMS_PER_PAGE)

C11_NavigationClamps ==
  /\ [](PagerShown => ((currentPage = totalPages) <=> (paginatedRepos = LastPageRows)))
  /\ [][(Previous \/ NextPage)
          => /\ currentPage' \in 1..totalPages
             /\ Previous => currentPage' = currentPage - 1
             /\ NextPage => currentPage' = currentPage + 1]_vars

\* C12: in the step in which a request is fulfilled, the results list becomes
\* one entry per repository of that response, each counting that response's
\* issues of the repository; nothing of the previous results list remains.
C12_SuccessReplacesWholesale ==
  [][\A i \in 1..Len(requests) :
       (i \in Pending /\ requests'[i].state = "ok")
         => LET items == requests'[i].items
            IN /\ Len(repos')
                    = Cardinality({repoFullName(items[k]) : k \in 1..Len(items)})
               /\ \A e \in 1..Len(repos') :
                    /\ repos'[e].count >= 1
                    /\ repos'[e].count
                         = Cardinality({k \in 1..Len(items) :
                                          repoFullName(items[k]) = repos'[e].repo})]_vars

C12_ShorterResultsReplaceLonger ==
  \E i, j \in 1..Len(requests) :
    /\ i # j
    /\ requests[i].state = "ok"
    /\ requests[j].state = "ok"
    /\ repos # <<>>
    /\ repos = sortedRepos(requests[j].items)
    /\ Len(repos) < Len(sortedRepos(requests[i].items))

\* the response aggregated in a state of AggSpec, once it has been
Aggregated == Len(requests) = 1 /\ requests[1].state = "ok"

AggInput == requests[1].items

Occurrences(items, name) ==
  {k \in 1..Len(items) : repoFullName(items[k]) = name}

RECURSIVE SumCounts(_)
SumCounts(entries) ==
  IF entries = <<>> THEN 0 ELSE entries[1].count + SumCounts(Tail(entries))

\* C13: the aggregated result holds exactly one entry per repository
\* identifier of the input, and each entry's count is the number of input
\* records of that repository; counts are at least 1 and sum to the number
\* of input records.
C13_OneEntryPerRepoWithItsCount ==
  Aggregated
    => /\ {repos[e].repo : e \in 1..Len(repos)}
            = {repoFullName(AggInput[k]) : k \in 1..Len(AggInput)}
       /\ \A e, f \in 1..Len(repos) : repos[e].repo = repos[f].repo => e = f
       /\ \A e \in 1..Len(repos) :
            /\ repos[e].count = Cardinality(Occurrences(AggInput, repos[e].repo))
            /\ repos[e].count >= 1
       /\ SumCounts(repos) = Len(AggInput)

C13_RepeatedRepoAggregated ==
  /\ Aggregated
  /\ Len(AggInput) = 4
  /\ Len(repos) = 2
  /\ repos[1].count = 3

FirstSeen(items, name) ==
  CHOOSE k \in Occurrences(items, name) :
    \A j \in Occurrences(items, name) : k <= j

\* C14: the aggregated result is ordered by count descending, and entries of
\* equal count are in the order in which their repository first occurs in
\* the input.
C14_CountDescendingFirstSeenTies ==
  Aggregated
    => \A e, f \in 1..Len(repos) :
         e < f
           => /\ repos[e].count >= repos[f].count
              /\ repos[e].count = repos[f].count
                   => FirstSeen(AggInput, repos[e].repo)
                        < FirstSeen(AggInput, repos[f].repo)

C14_TiesBehindLaterSeenLeader ==
  /\ Aggregated
  /\ Len(repos) = 3
  /\ repos[1].count > repos[2].count
  /\ repos[2].count = repos[3].count
  /\ FirstSeen(AggInput, repos[1].repo) > FirstSeen(AggInput, repos[3].repo)

Min(a, b) == IF a < b THEN a ELSE b

RECURSIVE PagesUpTo(_, _)
PagesUpTo(results, p) ==
  IF p = 0 THEN <<>> ELSE PagesUpTo(results, p - 1) \o paginate(results, p)

\* C15: totalPages is the ceiling of the number of results over the page
\* size; page p of 1..totalPages is the items at positions (p-1)*10 up to
\* but excluding min(p*10, n) and holds 1 to 10 items; the pages in order
\* make up the results list; the rows displayed are those of the page at
\* the current page index.
C15_PagesPartitionResults ==
  LET n == Len(repos)
  IN /\ totalPages * ITEMS_PER_PAGE >= n
     /\ (totalPages - 1) * ITEMS_PER_PAGE < n
     /\ \A p \in 1..totalPages :
          LET from == (p - 1) * ITEMS_PER_PAGE
              to == Min(p * ITEMS_PER_PAGE, n)
          IN /\ paginate(repos, p) = [k \in 1..(to - from) |-> repos[from + k]]
             /\ Len(paginate(repos, p)) \in 1..ITEMS_PER_PAGE
     /\ PagesUpTo(repos, totalPages) = repos
     /\ paginatedRepos = paginate(repos, currentPage)

C15_ThirdPageOfTwentyFive ==
  /\ Len(repos) = 25
  /\ totalPages = 3
  /\ currentPage = 3
  /\ Len(paginatedRepos) = 5
  /\ paginatedRepos[1] = repos[21]

\* C16: loading is never true while an error message is set.
C16_NoErrorWhileLoading == ~(loading /\ error # Null)

C16_ErrorWithRequestInFlight ==
  /\ Pending # {}
  /\ \E i \in 1..Len(requests) : Failed(i)
  /\ error # Null
  /\ ~loading

\* C17: a Previous or Next click issues no request and leaves the label
\* text, the results list, loading and the error message unchanged.
C17_NavigationChangesPageOnly ==
  [][(Previous \/ NextPage)
       => /\ requests' = requests
          /\ tags' = tags
          /\ repos' = repos
          /\ loading' = loading
          /\ error' = error]_vars

C17_NavigatedWithoutRequest ==
  /\ Len(requests) = 1
  /\ requests[1].state = "ok"
  /\ ~loading
  /\ error = Null
  /\ currentPage = 3

\* C18: the page index is within 1..max(1, totalPages), so a non-empty
\* results list always shows at least one row.
C18_PageIndexInRange ==
  /\ currentPage >= 1
  /\ currentPage <= (IF totalPages > 1 THEN totalPages ELSE 1)
  /\ repos # <<>> => paginatedRepos # <<>>

\* C19: loading is true whenever a request is in flight.
C19_LoadingWhileInFlight == Pending # {} => loading

\* C20: once every request has settled, the error message is null if the
\* request issued last was fulfilled and set if it failed.
C20_ErrorOfLastRequest ==
  (Len(requests) > 0 /\ Pending = {})
    => ((error = Null) <=> (LastRequest.state = "ok"))

====
